---- MODULE Spec2Model ----
(***************************************************************************)
(* Model of yadisk-sync (src/main.py): main() = handle_dirs(); sync().      *)
(* File names are sequences of one-character strings so that               *)
(* str.replace('.tgz', '') and f'{name}.tgz' are computed as Python does.   *)
(***************************************************************************)
EXTENDS Integers, Sequences, FiniteSets, TLC

\* ------------------------------------------------------------------ bounds
MaxLocal == 3
MaxRemote == 3
MaxRuns == 2

\* ------------------------------------------------------------ file names
Tgz == <<".", "t", "g", "z">>

NameA == <<"a">>

NameB == <<"b">>

\* Names the local backup directory may hold: with the suffix, without it,
\* and with the suffix twice.
LocalNames == {NameA \o Tgz, NameB \o Tgz, NameA, NameA \o Tgz \o Tgz}

\* Names the remote backup folder may hold.
RemoteNames == {NameA, NameB, NameA \o Tgz}

EntryTypes == {"none", "file", "directory"}

\* str.replace(old, ''): left-to-right scan, non-overlapping, every occurrence.
Replace(s, old) ==
    LET RECURSIVE R(_)
        R(i) == IF i > Len(s) THEN <<>>
                ELSE IF /\ i + Len(old) - 1 <= Len(s)
                        /\ SubSeq(s, i, i + Len(old) - 1) = old
                     THEN R(i + Len(old))
                     ELSE <<s[i]>> \o R(i + 1)
    IN R(1)

\* f'{elem.name}.tgz' in local_files  (negated at line 78)
KeepTestInverted(name, files) == (name \o Tgz) \notin files

KeepTest(name, files) == (name \o Tgz) \in files

\* file.replace('.tgz', '') not in yadisk_files
NeedsUpload(file, kept) == Replace(file, Tgz) \notin kept

\* f'{APP_BACKUPS_DIR}/{file.replace(".tgz", "")}'
UploadTarget(file) == Replace(file, Tgz)

\* ----------------------------------------------------------------- state
VARIABLES
    localDir,      \* BACKUPS_DIR exists on the local drive
    localFiles,    \* names in BACKUPS_DIR
    mcDir,         \* app:/mc exists
    backupsDir,    \* app:/mc/backups exists
    remote,        \* entries of app:/mc/backups: name -> none | file | directory
    pc,            \* position of the process in main()
    local_files,   \* sync(): os.listdir(BACKUPS_DIR)
    yadisk_files,  \* sync(): names kept on Yandex.Disk
    listing,       \* entries of yadisk.listdir(...) not yet iterated
    todo,          \* entries of local_files not yet iterated
    removed,       \* names passed to yadisk.remove that completed, this run
    uploadCalls,   \* local files passed to yadisk.upload, this run
    uploaded,      \* local files whose upload completed, this run
    run,           \* number of the invocation
    remote0,       \* remote entries before the first invocation
    runStart,      \* remote entries when this invocation began
    prevOutcome,   \* how the previous invocation ended
    exitStatus,    \* exit status of the process
    traceLogged    \* logging.exception was called in this invocation

vars == <<localDir, localFiles, mcDir, backupsDir, remote, pc, local_files,
          yadisk_files, listing, todo, removed, uploadCalls, uploaded, run,
          remote0, runStart, prevOutcome, exitStatus, traceLogged>>

diskVars == <<localDir, localFiles, mcDir, backupsDir, remote>>

syncVars == <<local_files, yadisk_files, listing, todo, removed, uploadCalls,
              uploaded>>

histVars == <<run, remote0, runStart, prevOutcome>>

Terminal == {"done", "failed", "interrupted"}

Present(r) == {n \in RemoteNames : r[n] # "none"}

FilesOf(r) == {n \in RemoteNames : r[n] = "file"}

DirsOf(r) == {n \in RemoteNames : r[n] = "directory"}

Init ==
    /\ localDir \in BOOLEAN
    /\ localFiles \in {s \in SUBSET LocalNames :
                          /\ Cardinality(s) <= MaxLocal
                          /\ (~localDir => s = {})}
    /\ mcDir \in BOOLEAN
    /\ backupsDir \in {b \in BOOLEAN : b => mcDir}
    /\ remote \in {r \in [RemoteNames -> EntryTypes] :
                      /\ Cardinality(Present(r)) <= MaxRemote
                      /\ (~backupsDir => Present(r) = {})}
    /\ pc = "dirs_local"
    /\ local_files = {}
    /\ yadisk_files = {}
    /\ listing = {}
    /\ todo = {}
    /\ removed = {}
    /\ uploadCalls = {}
    /\ uploaded = {}
    /\ run = 1
    /\ remote0 = remote
    /\ runStart = remote
    /\ prevOutcome = "none"
    /\ exitStatus = 0
    /\ traceLogged = FALSE

\* ------------------------------------------------- top level (__main__)
\* except Exception: logging.exception(exc, exc_info=True) -- no sys.exit
AfterExceptionExits1(status) == 1

AfterException(status) == status

\* where the process is after the except Exception handler
FailedPcRetries == "local_loop"

FailedPc == "failed"

\* except KeyboardInterrupt: sys.exit(1)
InterruptStatus == 1

Raise ==
    /\ pc' = FailedPc
    /\ traceLogged' = TRUE
    /\ exitStatus' = AfterException(exitStatus)

KeyboardInterrupt ==
    /\ pc \notin Terminal
    /\ pc' = "interrupted"
    /\ exitStatus' = InterruptStatus
    /\ UNCHANGED <<diskVars, syncVars, histVars, traceLogged>>

\* ---------------------------------------------------------- handle_dirs
HandleLocalDir ==
    /\ pc = "dirs_local"
    /\ localDir' = TRUE
    /\ pc' = "dirs_mc"
    /\ UNCHANGED <<localFiles, mcDir, backupsDir, remote, syncVars, histVars,
                   exitStatus, traceLogged>>

HandleMcDir ==
    /\ pc = "dirs_mc"
    /\ mcDir' = TRUE
    /\ pc' = "dirs_backups"
    /\ UNCHANGED <<localDir, localFiles, backupsDir, remote, syncVars,
                   histVars, exitStatus, traceLogged>>

HandleBackupsDir ==
    /\ pc = "dirs_backups"
    /\ backupsDir' = TRUE
    /\ pc' = "list_local"
    /\ UNCHANGED <<localDir, localFiles, mcDir, remote, syncVars, histVars,
                   exitStatus, traceLogged>>

\* os.makedirs, yadisk.exists or yadisk.mkdir raises
HandleDirsFail ==
    /\ \/ pc = "dirs_local" /\ ~localDir
       \/ pc \in {"dirs_mc", "dirs_backups"}
    /\ Raise
    /\ UNCHANGED <<diskVars, syncVars, histVars>>

\* ----------------------------------------------------------------- sync
ListLocal ==
    /\ pc = "list_local"
    /\ local_files' = localFiles
    /\ yadisk_files' = {}
    /\ todo' = localFiles
    /\ pc' = "list_remote"
    /\ UNCHANGED <<diskVars, listing, removed, uploadCalls, uploaded,
                   histVars, exitStatus, traceLogged>>

ListLocalFail ==
    /\ pc = "list_local"
    /\ Raise
    /\ UNCHANGED <<diskVars, syncVars, histVars>>

ListRemote ==
    /\ pc = "list_remote"
    /\ listing' = {[name |-> n, type |-> remote[n]] : n \in Present(remote)}
    /\ pc' = "remote_loop"
    /\ UNCHANGED <<diskVars, local_files, yadisk_files, todo, removed,
                   uploadCalls, uploaded, histVars, exitStatus, traceLogged>>

ListRemoteFail ==
    /\ pc = "list_remote"
    /\ Raise
    /\ UNCHANGED <<diskVars, syncVars, histVars>>

InRemotePass == pc = "remote_loop"

\* elem.type == 'file'
IsFileAnyType(e) == TRUE

IsFile(e) == e.type = "file"

InLocalPassEarly == pc \in {"remote_loop", "local_loop"}

InLocalPass == pc = "local_loop"

\* elem.type == 'file' and f'{elem.name}.tgz' not in local_files
RemoveOrphan ==
    /\ InRemotePass
    /\ \E e \in listing :
          /\ IsFile(e)
          /\ ~KeepTest(e.name, local_files)
          /\ remote' = [remote EXCEPT ![e.name] = "none"]
          /\ removed' = removed \cup {e.name}
          /\ listing' = listing \ {e}
    /\ UNCHANGED <<localDir, localFiles, mcDir, backupsDir, pc, local_files,
                   yadisk_files, todo, uploadCalls, uploaded, histVars,
                   exitStatus, traceLogged>>

RemoveFail ==
    /\ InRemotePass
    /\ \E e \in listing :
          /\ IsFile(e)
          /\ ~KeepTest(e.name, local_files)
    /\ Raise
    /\ UNCHANGED <<diskVars, syncVars, histVars>>

KeepFile ==
    /\ InRemotePass
    /\ \E e \in listing :
          /\ IsFile(e)
          /\ KeepTest(e.name, local_files)
          /\ yadisk_files' = yadisk_files \cup {e.name}
          /\ listing' = listing \ {e}
    /\ UNCHANGED <<diskVars, pc, local_files, todo, removed, uploadCalls,
                   uploaded, histVars, exitStatus, traceLogged>>

SkipDirectory ==
    /\ InRemotePass
    /\ \E e \in listing :
          /\ ~IsFile(e)
          /\ listing' = listing \ {e}
    /\ UNCHANGED <<diskVars, pc, local_files, yadisk_files, todo, removed,
                   uploadCalls, uploaded, histVars, exitStatus, traceLogged>>

RemoteLoopEnd ==
    /\ InRemotePass
    /\ listing = {}
    /\ pc' = "local_loop"
    /\ UNCHANGED <<diskVars, syncVars, histVars, exitStatus, traceLogged>>

\* yadisk.upload completes: the destination is a file afterwards.  A
\* destination that is a directory is a conflict, see UploadFail.
Upload ==
    /\ InLocalPass
    /\ \E f \in todo :
          /\ NeedsUpload(f, yadisk_files)
          /\ remote[UploadTarget(f)] # "directory"
          /\ remote' = [remote EXCEPT ![UploadTarget(f)] = "file"]
          /\ uploadCalls' = uploadCalls \cup {f}
          /\ uploaded' = uploaded \cup {f}
          /\ todo' = todo \ {f}
    /\ UNCHANGED <<localDir, localFiles, mcDir, backupsDir, pc, local_files,
                   yadisk_files, listing, removed, histVars, exitStatus,
                   traceLogged>>

\* yadisk.upload raises (network, quota, the destination exists)
UploadFail ==
    /\ InLocalPass
    /\ \E f \in todo :
          /\ NeedsUpload(f, yadisk_files)
          /\ uploadCalls' = uploadCalls \cup {f}
    /\ Raise
    /\ UNCHANGED <<diskVars, local_files, yadisk_files, listing, todo,
                   removed, uploaded, histVars>>

\* os.stat or open raises before yadisk.upload is called
LocalAccessFail ==
    /\ InLocalPass
    /\ \E f \in todo : NeedsUpload(f, yadisk_files)
    /\ Raise
    /\ UNCHANGED <<diskVars, syncVars, histVars>>

SkipLocal ==
    /\ InLocalPass
    /\ \E f \in todo :
          /\ ~NeedsUpload(f, yadisk_files)
          /\ todo' = todo \ {f}
    /\ UNCHANGED <<diskVars, pc, local_files, yadisk_files, listing, removed,
                   uploadCalls, uploaded, histVars, exitStatus, traceLogged>>

LocalLoopEnd ==
    /\ InLocalPass
    /\ todo = {}
    /\ pc' = "done"
    /\ UNCHANGED <<diskVars, syncVars, histVars, exitStatus, traceLogged>>

\* The external scheduler starts the script again: a new process.
Rerun ==
    /\ pc \in Terminal
    /\ run < MaxRuns
    /\ run' = run + 1
    /\ prevOutcome' = pc
    /\ runStart' = remote
    /\ pc' = "dirs_local"
    /\ local_files' = {}
    /\ yadisk_files' = {}
    /\ listing' = {}
    /\ todo' = {}
    /\ removed' = {}
    /\ uploadCalls' = {}
    /\ uploaded' = {}
    /\ exitStatus' = 0
    /\ traceLogged' = FALSE
    /\ UNCHANGED <<diskVars, remote0>>

Next ==
    \/ HandleLocalDir
    \/ HandleMcDir
    \/ HandleBackupsDir
    \/ HandleDirsFail
    \/ ListLocal
    \/ ListLocalFail
    \/ ListRemote
    \/ ListRemoteFail
    \/ RemoveOrphan
    \/ RemoveFail
    \/ KeepFile
    \/ SkipDirectory
    \/ RemoteLoopEnd
    \/ Upload
    \/ UploadFail
    \/ LocalAccessFail
    \/ SkipLocal
    \/ LocalLoopEnd
    \/ KeyboardInterrupt
    \/ Rerun

Spec == Init /\ [][Next]_vars

TypeOK ==
    /\ pc \in {"dirs_local", "dirs_mc", "dirs_backups", "list_local",
               "list_remote", "remote_loop", "local_loop"} \cup Terminal
    /\ localFiles \subseteq LocalNames
    /\ remote \in [RemoteNames -> EntryTypes]
    /\ exitStatus \in {0, 1}
\* ------------------------------------------------------------- claims
\* CanonicalName as the specification defines it: the local name with the
\* '.tgz' suffix stripped, a name without the suffix being left as it is.
CanonicalName(l) ==
    IF Len(l) >= Len(Tgz) /\ SubSeq(l, Len(l) - Len(Tgz) + 1, Len(l)) = Tgz
    THEN SubSeq(l, 1, Len(l) - Len(Tgz))
    ELSE l

\* Remote entries after the removals rem and the completed uploads upl.
Applied(r, rem, upl) ==
    [n \in RemoteNames |->
        IF n \in {UploadTarget(f) : f \in upl} THEN "file"
        ELSE IF n \in rem THEN "none"
        ELSE r[n]]

\* Remote files an uninterrupted run leaves, from local files L and remote
\* entries r: the files whose name with '.tgz' appended is local, and the
\* local names with every '.tgz' removed.
UninterruptedFiles(L, r) ==
    {n \in FilesOf(r) : (n \o Tgz) \in L} \cup {Replace(l, Tgz) : l \in L}

\* C1: in one run no name is both removed from the remote folder and the
\* target of an upload.
C1_Disjointness ==
    removed \cap {UploadTarget(f) : f \in uploadCalls} = {}

\* C2: a run that follows a completed run, with nothing changed in between,
\* performs no removal and no upload.
C2_Idempotence ==
    (run > 1 /\ prevOutcome = "done") => (removed = {} /\ uploadCalls = {})

\* C3: after a completed run every remote file is the canonical name
\* (suffix stripped) of some local file.
C3_PurgeCorrectness ==
    pc = "done" =>
        \A r \in FilesOf(remote) : \E l \in localFiles : CanonicalName(l) = r

\* C4: once the removal pass is over, a remote file was removed iff no local
\* file has it as canonical name; a file with a local match is kept, and a
\* kept file is neither removed nor re-uploaded.
C4_DeleteSetExact ==
    pc \in {"local_loop", "done"} =>
        \A r \in FilesOf(runStart) :
            LET matched == \E l \in local_files : CanonicalName(l) = r
            IN  /\ (r \in removed) <=> ~matched
                /\ matched => r \in yadisk_files
                /\ r \in yadisk_files =>
                      /\ r \notin removed
                      /\ r \notin {UploadTarget(f) : f \in uploadCalls}

\* C5: after a completed run every local file whose canonical name (suffix
\* stripped) is not kept was uploaded to the path of that canonical name,
\* and every local canonical name is a remote file.
C5_CoverageAndTarget ==
    pc = "done" =>
        \A l \in localFiles :
            /\ CanonicalName(l) \notin yadisk_files =>
                  (l \in uploaded /\ UploadTarget(l) = CanonicalName(l))
            /\ CanonicalName(l) \in FilesOf(remote)

\* C6: within one run, once an upload has been issued no removal follows.
C6_DeleteBeforeUpload ==
    [][(uploadCalls # {} /\ run' = run) => removed' = removed]_vars

C6_Witness ==
    /\ removed # {}
    /\ uploaded # {}
    /\ pc = "done"

\* C7: after a failure the run issues no further removal or upload (the
\* failed call is not retried), and the remote folder holds exactly the
\* removals and uploads completed before the failure.
C7_AbortWithoutRollback ==
    /\ [](traceLogged => remote = Applied(runStart, removed, uploaded))
    /\ [][(traceLogged /\ run' = run) =>
            /\ remote' = remote
            /\ removed' = removed
            /\ uploadCalls' = uploadCalls
            /\ uploaded' = uploaded]_vars

C7_Witness ==
    /\ pc = "failed"
    /\ traceLogged
    /\ removed # {}
    /\ uploaded # {}
    /\ uploadCalls # uploaded

\* C8: a run that completes, also after an aborted run, leaves the remote
\* files that an uninterrupted run from the original state leaves.
C8_ConvergenceAfterAbort ==
    pc = "done" =>
        FilesOf(remote) = UninterruptedFiles(localFiles, remote0)

C8_Witness ==
    /\ pc = "done"
    /\ run > 1
    /\ prevOutcome = "failed"
    /\ runStart # remote0
    /\ runStart # remote
    /\ removed # {}
    /\ uploaded # {}

\* C9 as stated: an exception other than a user interrupt is logged and the
\* process ends with a non-zero status; a user interrupt ends it with
\* status 1 and no trace.
C9_ExitStatus ==
    /\ pc = "failed" => (traceLogged /\ exitStatus # 0)
    /\ pc = "interrupted" => (exitStatus = 1 /\ ~traceLogged)

\* C9 amended: an exception other than a user interrupt is logged with its
\* trace and the process ends with status 0; a user interrupt ends it with
\* status 1 and no trace.
C9_ExitStatusAmended ==
    /\ pc = "failed" => (traceLogged /\ exitStatus = 0)
    /\ pc = "interrupted" => (exitStatus = 1 /\ ~traceLogged)
    /\ traceLogged => pc = "failed"

C9_Witness ==
    /\ pc = "failed"
    /\ traceLogged
    /\ uploaded # {}

====
